---- MODULE Spec2Model ----
(***************************************************************************)
(* Padel Showdown (src/app.py): the in-memory tournament object Torneo,    *)
(* its competitor registry, match log, round generation, result entry,    *)
(* statistics recomputation and the "Finalizar torneo" button.             *)
(*                                                                         *)
(* Python strings are sequences of code points, so that string            *)
(* concatenation (display_name) and string comparison (the sort by        *)
(* EquipoDisplay) are computed, not assumed.  Optional values are <<>>     *)
(* for None and <<v>> for a value v.                                       *)
(***************************************************************************)
EXTENDS Integers, Sequences, FiniteSets, TLC

VARIABLES modo, ronda_actual, competidores, partidos, canchas,
          permitir_byes, finalizado, last

vars == <<modo, ronda_actual, competidores, partidos, canchas,
          permitir_byes, finalizado, last>>

torneo == <<modo, ronda_actual, competidores, partidos, canchas,
            permitir_byes, finalizado>>

----------------------------------------------------------------------------
(* Bounds of the model *)

MaxRonda == 2

MaxComp == 3

MaxRondaFour == 2

MaxRondaCourts == 2

----------------------------------------------------------------------------
(* Program constants *)

POINTS_WIN == 3

POINTS_DRAW == 1

POINTS_LOSS == 0

None == <<>>

Some(v) == <<v>>

----------------------------------------------------------------------------
(* Strings as code-point sequences *)

sA == <<65>>

sB == <<66>>

sC == <<67>>

sD == <<68>>

sE == <<69>>

sF == <<70>>

sT == <<84>>

sTh == <<84, 32, 35>>

sx == <<120>>

sy == <<121>>

\* Python str.__lt__: lexicographic by code point, a proper prefix is smaller
RECURSIVE StrLess(_, _)
StrLess(s, t) ==
    IF t = <<>> THEN FALSE
    ELSE IF s = <<>> THEN TRUE
    ELSE IF Head(s) # Head(t) THEN Head(s) < Head(t)
    ELSE StrLess(Tail(s), Tail(t))

----------------------------------------------------------------------------
(* Dataclasses *)

Competidor(nombre, miembros) ==
    [nombre |-> nombre, miembros |-> miembros,
     puntos |-> 0, pg |-> 0, pe |-> 0, pp |-> 0, dif |-> 0, pj |-> 0]

Partido(comp1, comp2, ronda, cancha) ==
    [comp1 |-> comp1, comp2 |-> comp2, score1 |-> None, score2 |-> None,
     jugado |-> FALSE, ronda |-> ronda, cancha |-> cancha]

\* position of key nombre in the dict cs (0 when absent)
IndexOf(cs, nombre) ==
    IF \E i \in 1..Len(cs) : cs[i].nombre = nombre
    THEN CHOOSE i \in 1..Len(cs) : cs[i].nombre = nombre
    ELSE 0

HasKey(cs, nombre) == IndexOf(cs, nombre) # 0

----------------------------------------------------------------------------
(* Torneo utilities *)

\* mutant: only the points are cleared
reset_stats_only_puntos(cs) ==
    [i \in 1..Len(cs) |-> [cs[i] EXCEPT !.puntos = 0]]

reset_stats_only(cs) ==
    [i \in 1..Len(cs) |->
        [cs[i] EXCEPT !.puntos = 0, !.pg = 0, !.pe = 0, !.pp = 0,
                      !.dif = 0, !.pj = 0]]

lista_comp(cs) == [i \in 1..Len(cs) |-> cs[i].nombre]

display_name(md, c) ==
    IF md = "Parejas" /\ c.miembros # None
    THEN c.nombre \o <<32, 40>> \o c.miembros[1] \o <<32, 47, 32>>
                  \o c.miembros[2] \o <<41>>
    ELSE c.nombre

leaderboard_base(md, cs) ==
    [i \in 1..Len(cs) |->
        [Nombre |-> cs[i].nombre, EquipoDisplay |-> display_name(md, cs[i]),
         PTS |-> cs[i].puntos, PG |-> cs[i].pg, PE |-> cs[i].pe,
         PP |-> cs[i].pp, Dif |-> cs[i].dif, PJ |-> cs[i].pj]]

\* [p for p in self.partidos if p.ronda == ronda]
partidos_de_ronda(ps, ronda) == SelectSeq(ps, LAMBDA p : p.ronda = ronda)

total_rondas_posibles(cs) ==
    LET n == Len(cs)
        m == IF n - 1 > 0 THEN n - 1 ELSE 0
    IN  IF n > 1 THEN m ELSE 0

----------------------------------------------------------------------------
(* Statistics *)

AddTo(cs, i, f, d) == [cs EXCEPT ![i] = [@ EXCEPT ![f] = @ + d]]

\* mutant: a draw is scored as a win of side 1 (>= for >)
StatsStep_ge(cs, p) ==
    IF ~p.jugado THEN cs
    ELSE
      LET i1 == IndexOf(cs, p.comp1)
          i2 == IndexOf(cs, p.comp2)
          s1 == p.score1[1]
          s2 == p.score2[1]
          a1 == AddTo(cs, i1, "pj", 1)
          a2 == AddTo(a1, i2, "pj", 1)
          a3 == AddTo(a2, i1, "dif", s1 - s2)
          a4 == AddTo(a3, i2, "dif", s2 - s1)
      IN  IF s1 >= s2
          THEN AddTo(AddTo(AddTo(a4, i1, "pg", 1), i1, "puntos", POINTS_WIN),
                     i2, "pp", 1)
          ELSE AddTo(AddTo(AddTo(a4, i2, "pg", 1), i2, "puntos", POINTS_WIN),
                     i1, "pp", 1)

\* body of the loop of recompute_all_stats for one match p
StatsStep(cs, p) ==
    IF ~p.jugado THEN cs
    ELSE
      LET i1 == IndexOf(cs, p.comp1)
          i2 == IndexOf(cs, p.comp2)
          s1 == p.score1[1]
          s2 == p.score2[1]
          a1 == AddTo(cs, i1, "pj", 1)
          a2 == AddTo(a1, i2, "pj", 1)
          a3 == AddTo(a2, i1, "dif", s1 - s2)
          a4 == AddTo(a3, i2, "dif", s2 - s1)
      IN  IF s1 > s2
          THEN AddTo(AddTo(AddTo(a4, i1, "pg", 1), i1, "puntos", POINTS_WIN),
                     i2, "pp", 1)
          ELSE IF s2 > s1
          THEN AddTo(AddTo(AddTo(a4, i2, "pg", 1), i2, "puntos", POINTS_WIN),
                     i1, "pp", 1)
          ELSE AddTo(AddTo(AddTo(AddTo(a4, i1, "pe", 1), i2, "pe", 1),
                           i1, "puntos", POINTS_DRAW), i2, "puntos", POINTS_DRAW)

RECURSIVE StatsLoop(_, _, _)
StatsLoop(cs, ps, k) ==
    IF k > Len(ps) THEN cs
    ELSE StatsLoop(StatsStep(cs, ps[k]), ps, k + 1)

\* mutant: the stats are not cleared before the loop (incremental update)
recompute_all_stats_sin_reset(cs, ps) == StatsLoop(cs, ps, 1)

recompute_all_stats(cs, ps) == StatsLoop(reset_stats_only(cs), ps, 1)

----------------------------------------------------------------------------
(* Ranking and pairing *)

\* mutant: the differential is not a sort key
RowBefore_sin_dif(a, b) ==
    IF a.PTS # b.PTS THEN a.PTS > b.PTS
    ELSE IF a.PG # b.PG THEN a.PG > b.PG
    ELSE StrLess(a.EquipoDisplay, b.EquipoDisplay)

\* row a comes strictly before row b under
\* sort_values(by=[PTS, Dif, PG, EquipoDisplay], ascending=[F, F, F, T])
RowBefore(a, b) ==
    IF a.PTS # b.PTS THEN a.PTS > b.PTS
    ELSE IF a.Dif # b.Dif THEN a.Dif > b.Dif
    ELSE IF a.PG # b.PG THEN a.PG > b.PG
    ELSE StrLess(a.EquipoDisplay, b.EquipoDisplay)

\* stable insertion of row r into the sorted sequence s
RECURSIVE InsertRow(_, _)
InsertRow(r, s) ==
    IF s = <<>> THEN <<r>>
    ELSE IF RowBefore(r, Head(s)) THEN <<r>> \o s
    ELSE <<Head(s)>> \o InsertRow(r, Tail(s))

\* stable multi-key sort of the rows (pandas lexsort)
RECURSIVE SortRows(_, _)
SortRows(rows, k) ==
    IF k = 0 THEN <<>>
    ELSE InsertRow(rows[k], SortRows(rows, k - 1))

sort_values(rows) == SortRows(rows, Len(rows))

\* stable insertion under sort_values(by=[EquipoDisplay], ascending=True)
RECURSIVE InsertRowDisplay(_, _)
InsertRowDisplay(r, s) ==
    IF s = <<>> THEN <<r>>
    ELSE IF StrLess(r.EquipoDisplay, Head(s).EquipoDisplay) THEN <<r>> \o s
    ELSE <<Head(s)>> \o InsertRowDisplay(r, Tail(s))

RECURSIVE SortRowsDisplay(_, _)
SortRowsDisplay(rows, k) ==
    IF k = 0 THEN <<>>
    ELSE InsertRowDisplay(rows[k], SortRowsDisplay(rows, k - 1))

\* df["PTS"].sum()
RECURSIVE SumPTS(_, _)
SumPTS(rows, k) == IF k = 0 THEN 0 ELSE rows[k].PTS + SumPTS(rows, k - 1)

\* str.strip() for the blank (code point 32)
RECURSIVE strip(_)
strip(s) ==
    IF s = <<>> THEN s
    ELSE IF Head(s) = 32 THEN strip(Tail(s))
    ELSE IF s[Len(s)] = 32 THEN strip(SubSeq(s, 1, Len(s) - 1))
    ELSE s

\* the medal of row i (1-based index): U+1F947, U+1F948, U+1F949 or ""
med(i) == IF i = 1 THEN <<129351>> ELSE IF i = 2 THEN <<129352>>
          ELSE IF i = 3 THEN <<129353>> ELSE <<>>

\* the rows of the displayed table, in order; the position is the index "#"
leaderboard_df(md, cs) ==
    LET df  == leaderboard_base(md, cs)
        ord == IF SumPTS(df, Len(df)) = 0
               THEN SortRowsDisplay(df, Len(df))
               ELSE sort_values(df)
    IN  [i \in 1..Len(ord) |->
            [Equipo |-> strip(med(i) \o <<32>> \o ord[i].EquipoDisplay),
             PTS |-> ord[i].PTS, PG |-> ord[i].PG, PE |-> ord[i].PE,
             PP |-> ord[i].PP, Dif |-> ord[i].Dif, PJ |-> ord[i].PJ]]

\* mutant: range step 1 instead of 2
AdjacentPairs_paso1(order) ==
    [k \in 1..(Len(order) - 1) |-> <<order[k], order[k + 1]>>]

\* mutant: with an odd count the range starts at 1, leaving out the first
AdjacentPairs_salta_primero(order) ==
    [k \in 1..(Len(order) \div 2) |->
        <<order[2 * k - 1 + (Len(order) % 2)], order[2 * k + (Len(order) % 2)]>>]

\* [(order[i], order[i+1]) for i in range(0, len(order)-1, 2)]
AdjacentPairs(order) ==
    [k \in 1..(Len(order) \div 2) |-> <<order[2 * k - 1], order[2 * k]>>]

Permutaciones(n) ==
    {f \in [1..n -> 1..n] : \A i, j \in 1..n : i # j => f[i] # f[j]}

\* outcomes of random.shuffle(pool)
shuffle(pool) ==
    {[i \in 1..Len(pool) |-> pool[f[i]]] : f \in Permutaciones(Len(pool))}

ErrImparPairing == "ValueError: Numero impar de competidores y 'Permitir byes' esta desactivado."

\* set of possible outcomes: [err |-> None, pairs |-> ...] or a raised error
pairings_round1(nombres, byes) ==
    IF Len(nombres) % 2 = 1 /\ ~byes
    THEN {[err |-> ErrImparPairing, pairs |-> <<>>]}
    ELSE {[err |-> "", pairs |-> AdjacentPairs(pool)] : pool \in shuffle(nombres)}

pairings_competitive(md, cs, byes) ==
    LET base  == sort_values(leaderboard_base(md, cs))
        order == [i \in 1..Len(base) |-> base[i].Nombre]
    IN  IF Len(order) % 2 = 1 /\ ~byes
        THEN {[err |-> ErrImparPairing, pairs |-> <<>>]}
        ELSE {[err |-> "", pairs |-> AdjacentPairs(order)]}

\* mutant: no cycling, every match goes to the first court
AsignarCancha_primera(cn, idx) ==
    IF cn # <<>> THEN Some(cn[1]) ELSE None

\* court of the idx-th (0-based) generated match
AsignarCancha(cn, idx) ==
    IF cn # <<>> THEN Some(cn[(idx % Len(cn)) + 1]) ELSE None

\* mutant: the matches carry the round number before the increment
NuevosPartidos_ronda_previa(pairs, ronda, cn) ==
    [k \in 1..Len(pairs) |->
        Partido(pairs[k][1], pairs[k][2], ronda - 1, AsignarCancha(cn, k - 1))]

NuevosPartidos(pairs, ronda, cn) ==
    [k \in 1..Len(pairs) |->
        Partido(pairs[k][1], pairs[k][2], ronda, AsignarCancha(cn, k - 1))]

----------------------------------------------------------------------------
(* Operations.  last records the operation just called, the exception it  *)
(* raised ("" when it returned normally) and whether it overwrote data    *)
(* (edit): for registrar_resultado, that the match already had a result;   *)
(* for reset_all_matches, that the log was not empty.                      *)

ErrDuplicado == "ValueError: Ya existe un competidor con ese nombre."

ErrFinalizado == "ValueError: El torneo ya fue finalizado."

ErrMin2 == "ValueError: Se requieren al menos 2 competidores para generar una ronda."

ErrImpar == "ValueError: Cantidad impar de competidores."

Ret(op, err) == [op |-> op, err |-> err, edit |-> FALSE]

Init ==
    /\ modo \in {"Individual", "Parejas"}
    /\ ronda_actual = 0
    /\ competidores = <<>>
    /\ partidos = <<>>
    /\ canchas = <<>>
    /\ permitir_byes \in BOOLEAN
    /\ finalizado = FALSE
    /\ last = Ret("Torneo", "")

\* mutant: no duplicate check, the dict entry is overwritten
registrar_competidor_sin_dup(nombre, miembros) ==
    /\ IF HasKey(competidores, nombre)
       THEN competidores' = [competidores EXCEPT ![IndexOf(competidores, nombre)] =
                    Competidor(nombre, IF miembros # <<>> THEN miembros ELSE None)]
       ELSE competidores' = Append(competidores,
                    Competidor(nombre, IF miembros # <<>> THEN miembros ELSE None))
    /\ last' = Ret("registrar_competidor", "")
    /\ UNCHANGED <<modo, ronda_actual, partidos, canchas, permitir_byes, finalizado>>

registrar_competidor(nombre, miembros) ==
    /\ IF HasKey(competidores, nombre)
       THEN /\ last' = Ret("registrar_competidor", ErrDuplicado)
            /\ UNCHANGED competidores
       ELSE /\ competidores' = Append(competidores,
                    Competidor(nombre, IF miembros # <<>> THEN miembros ELSE None))
            /\ last' = Ret("registrar_competidor", "")
    /\ UNCHANGED <<modo, ronda_actual, partidos, canchas, permitir_byes, finalizado>>

\* mutant: the parity check is left to the pairing functions
GenPrecondition_sin_paridad(fin, n, byes) ==
    IF fin THEN ErrFinalizado
    ELSE IF n < 2 THEN ErrMin2
    ELSE ""

\* the checks of generar_nueva_ronda made before any mutation
GenPrecondition(fin, n, byes) ==
    IF fin THEN ErrFinalizado
    ELSE IF n < 2 THEN ErrMin2
    ELSE IF n % 2 = 1 /\ ~byes THEN ErrImpar
    ELSE ""

\* mutant: every round is paired by the shuffle of round 1
generar_nueva_ronda_baraja(maxRonda) ==
    LET nombres == lista_comp(competidores)
        pre     == GenPrecondition(finalizado, Len(nombres), permitir_byes)
        ronda   == ronda_actual + 1
    IN  IF pre # ""
        THEN /\ last' = Ret("generar_nueva_ronda", pre)
             /\ UNCHANGED torneo
        ELSE /\ ronda_actual < maxRonda
             /\ ronda_actual' = ronda
             /\ \E out \in pairings_round1(nombres, permitir_byes) :
                    /\ last' = Ret("generar_nueva_ronda", out.err)
                    /\ partidos' = IF out.err # "" THEN partidos
                                   ELSE partidos \o NuevosPartidos(out.pairs, ronda, canchas)
             /\ UNCHANGED <<modo, competidores, canchas, permitir_byes, finalizado>>

generar_nueva_ronda(maxRonda) ==
    LET nombres == lista_comp(competidores)
        pre     == GenPrecondition(finalizado, Len(nombres), permitir_byes)
        ronda   == ronda_actual + 1
    IN  IF pre # ""
        THEN /\ last' = Ret("generar_nueva_ronda", pre)
             /\ UNCHANGED torneo
        ELSE /\ ronda_actual < maxRonda
             /\ ronda_actual' = ronda
             /\ \E out \in (IF ronda = 1
                            THEN pairings_round1(nombres, permitir_byes)
                            ELSE pairings_competitive(modo, competidores, permitir_byes)) :
                    /\ last' = Ret("generar_nueva_ronda", out.err)
                    /\ partidos' = IF out.err # "" THEN partidos
                                   ELSE partidos \o NuevosPartidos(out.pairs, ronda, canchas)
             /\ UNCHANGED <<modo, competidores, canchas, permitir_byes, finalizado>>

\* mutant: the played flag is not set
registrar_resultado_sin_jugado(partido, score1, score2) ==
    /\ partido \in 1..Len(partidos)
    /\ partidos' = [partidos EXCEPT ![partido] =
                        [@ EXCEPT !.score1 = Some(score1), !.score2 = Some(score2)]]
    /\ competidores' = recompute_all_stats(competidores, partidos')
    /\ last' = [Ret("registrar_resultado", "") EXCEPT !.edit = partidos[partido].jugado]
    /\ UNCHANGED <<modo, ronda_actual, canchas, permitir_byes, finalizado>>

\* partido is the position in the log of the Partido object passed in
registrar_resultado(partido, score1, score2) ==
    /\ partido \in 1..Len(partidos)
    /\ partidos' = [partidos EXCEPT ![partido] =
                        [@ EXCEPT !.score1 = Some(score1), !.score2 = Some(score2),
                                  !.jugado = TRUE]]
    /\ competidores' = recompute_all_stats(competidores, partidos')
    /\ last' = [Ret("registrar_resultado", "") EXCEPT !.edit = partidos[partido].jugado]
    /\ UNCHANGED <<modo, ronda_actual, canchas, permitir_byes, finalizado>>

\* mutant: the finalizado flag is not cleared
reset_all_matches_sin_flag ==
    /\ competidores' = reset_stats_only(competidores)
    /\ ronda_actual' = 0
    /\ partidos' = <<>>
    /\ last' = [Ret("reset_all_matches", "") EXCEPT !.edit = partidos # <<>>]
    /\ UNCHANGED <<modo, canchas, permitir_byes, finalizado>>

\* mutant: the round counter is not cleared
reset_all_matches_sin_ronda ==
    /\ competidores' = reset_stats_only(competidores)
    /\ partidos' = <<>>
    /\ finalizado' = FALSE
    /\ last' = [Ret("reset_all_matches", "") EXCEPT !.edit = partidos # <<>>]
    /\ UNCHANGED <<modo, ronda_actual, canchas, permitir_byes>>

\* mutant: the matches are wiped but the log is not emptied
reset_all_matches_sin_vaciar ==
    /\ competidores' = reset_stats_only(competidores)
    /\ ronda_actual' = 0
    /\ partidos' = [i \in 1..Len(partidos) |->
                       [partidos[i] EXCEPT !.jugado = FALSE, !.score1 = None,
                                           !.score2 = None, !.cancha = None]]
    /\ finalizado' = FALSE
    /\ last' = [Ret("reset_all_matches", "") EXCEPT !.edit = partidos # <<>>]
    /\ UNCHANGED <<modo, canchas, permitir_byes>>

reset_all_matches ==
    /\ competidores' = reset_stats_only(competidores)
    /\ ronda_actual' = 0
    /\ partidos' = <<>>
    /\ finalizado' = FALSE
    /\ last' = [Ret("reset_all_matches", "") EXCEPT !.edit = partidos # <<>>]
    /\ UNCHANGED <<modo, canchas, permitir_byes>>

\* mutant: unplayed matches do not hold the button back
all_played_sin_jugados ==
    LET total_rondas == total_rondas_posibles(competidores)
    IN  /\ ronda_actual >= total_rondas
        /\ total_rondas > 0

\* condition under which the "Finalizar torneo" button is shown
all_played ==
    LET total_rondas == total_rondas_posibles(competidores)
    IN  /\ ronda_actual >= total_rondas
        /\ \A i \in 1..Len(partidos) : partidos[i].jugado
        /\ total_rondas > 0

Finalizar ==
    /\ ~finalizado /\ all_played
    /\ finalizado' = TRUE
    /\ last' = Ret("Finalizar", "")
    /\ UNCHANGED <<modo, ronda_actual, competidores, partidos, canchas, permitir_byes>>

----------------------------------------------------------------------------
(* Serialisation.  A JSON document is a tree of tagged values; json.dumps  *)
(* followed by json.loads returns the same tree (ints, strings, booleans,  *)
(* null, arrays, objects with distinct string keys in insertion order).    *)
(* The tournament's own name is not part of the model.                     *)

JNull == [t |-> "null"]

JBool(b) == [t |-> "bool", v |-> b]

JNum(n) == [t |-> "num", v |-> n]

JStr(s) == [t |-> "str", v |-> s]

JArr(a) == [t |-> "arr", v |-> a]

\* an Optional[int] field as written by json.dumps
JOptNum(o) == IF o = None THEN JNull ELSE JNum(o[1])

\* an Optional[str] field as written by json.dumps
JOptStr(o) == IF o = None THEN JNull ELSE JStr(o[1])

\* json.loads of such a field: null is None
PyOpt(j) == IF j.t = "null" THEN None ELSE Some(j.v)

\* dict.get(k, default)
Get(d, k, default) == IF k \in DOMAIN d THEN d[k] ELSE default

\* bool() of a loaded JSON value: null, [], "", 0 and false are falsy
Truthy(j) ==
    CASE j.t = "null" -> FALSE
      [] j.t = "bool" -> j.v
      [] j.t = "num"  -> j.v # 0
      [] OTHER        -> j.v # <<>>

\* asdict(Competidor): the tuple of members becomes a JSON array
Competidor_to_dict(c) ==
    [nombre   |-> JStr(c.nombre),
     miembros |-> IF c.miembros = None THEN JNull
                  ELSE JArr([i \in 1..Len(c.miembros) |-> JStr(c.miembros[i])]),
     puntos |-> JNum(c.puntos), pg |-> JNum(c.pg), pe |-> JNum(c.pe),
     pp |-> JNum(c.pp), dif |-> JNum(c.dif), pj |-> JNum(c.pj)]

Competidor_from_dict(d) ==
    [nombre   |-> d["nombre"].v,
     miembros |-> IF Truthy(Get(d, "miembros", JNull))
                  THEN [i \in 1..Len(d["miembros"].v) |-> d["miembros"].v[i].v]
                  ELSE None,
     puntos |-> Get(d, "puntos", JNum(0)).v, pg |-> Get(d, "pg", JNum(0)).v,
     pe |-> Get(d, "pe", JNum(0)).v, pp |-> Get(d, "pp", JNum(0)).v,
     dif |-> Get(d, "dif", JNum(0)).v, pj |-> Get(d, "pj", JNum(0)).v]

\* asdict(Partido)
Partido_to_dict(p) ==
    [comp1 |-> JStr(p.comp1), comp2 |-> JStr(p.comp2),
     score1 |-> JOptNum(p.score1), score2 |-> JOptNum(p.score2),
     jugado |-> JBool(p.jugado), ronda |-> JNum(p.ronda),
     cancha |-> JOptStr(p.cancha)]

Partido_from_dict(d) ==
    [comp1 |-> d["comp1"].v, comp2 |-> d["comp2"].v,
     score1 |-> PyOpt(Get(d, "score1", JNull)),
     score2 |-> PyOpt(Get(d, "score2", JNull)),
     jugado |-> Get(d, "jugado", JBool(FALSE)).v,
     ronda  |-> Get(d, "ronda", JNum(1)).v,
     cancha |-> PyOpt(Get(d, "cancha", JNull))]

\* the document written for the current tournament; the object
\* "competidores" is the sequence of its (key, value) members
to_json ==
    [modo          |-> JStr(modo),
     ronda_actual  |-> JNum(ronda_actual),
     competidores  |-> [i \in 1..Len(competidores) |->
                          <<competidores[i].nombre,
                            Competidor_to_dict(competidores[i])>>],
     partidos      |-> JArr([i \in 1..Len(partidos) |->
                                Partido_to_dict(partidos[i])]),
     canchas       |-> JArr([i \in 1..Len(canchas) |-> JStr(canchas[i])]),
     permitir_byes |-> JBool(permitir_byes),
     finalizado    |-> JBool(finalizado)]

\* mutant: the finalizado member is not read, the field keeps its default
from_json_sin_finalizado(d) ==
    LET cs == [i \in 1..Len(Get(d, "competidores", <<>>)) |->
                  Competidor_from_dict(d["competidores"][i][2])]
        ps == [i \in 1..Len(Get(d, "partidos", JArr(<<>>)).v) |->
                  Partido_from_dict(d["partidos"].v[i])]
        cn == Get(d, "canchas", JArr(<<>>)).v
    IN  [modo          |-> d["modo"].v,
         ronda_actual  |-> Get(d, "ronda_actual", JNum(0)).v,
         canchas       |-> [i \in 1..Len(cn) |-> cn[i].v],
         permitir_byes |-> Get(d, "permitir_byes", JBool(FALSE)).v,
         finalizado    |-> FALSE,
         competidores  |-> recompute_all_stats(cs, ps),
         partidos      |-> ps]

\* the fields of the Torneo built from document d
from_json(d) ==
    LET cs == [i \in 1..Len(Get(d, "competidores", <<>>)) |->
                  Competidor_from_dict(d["competidores"][i][2])]
        ps == [i \in 1..Len(Get(d, "partidos", JArr(<<>>)).v) |->
                  Partido_from_dict(d["partidos"].v[i])]
        cn == Get(d, "canchas", JArr(<<>>)).v
    IN  [modo          |-> d["modo"].v,
         ronda_actual  |-> Get(d, "ronda_actual", JNum(0)).v,
         canchas       |-> [i \in 1..Len(cn) |-> cn[i].v],
         permitir_byes |-> Get(d, "permitir_byes", JBool(FALSE)).v,
         finalizado    |-> Get(d, "finalizado", JBool(FALSE)).v,
         competidores  |-> recompute_all_stats(cs, ps),
         partidos      |-> ps]

\* the session's tournament is replaced by Torneo.from_json(t.to_json())
ExportImport ==
    LET t == from_json(to_json)
    IN  /\ modo' = t.modo
        /\ ronda_actual' = t.ronda_actual
        /\ competidores' = t.competidores
        /\ partidos' = t.partidos
        /\ canchas' = t.canchas
        /\ permitir_byes' = t.permitir_byes
        /\ finalizado' = t.finalizado
        /\ last' = Ret("from_json", "")

----------------------------------------------------------------------------
(* Specifications *)

\* inputs of registrar_competidor: a name and its optional pair of members.
\* New names are offered in this order (a registered name may be offered
\* again at any time): the insertion order of the registry decides nothing
\* but the rank of two equal display names, which these names do not have.
Entrantes == <<<<sT, <<sx, sy>>>>, <<sTh, <<sx, sy>>>>, <<sA, None>>>>

\* inputs of registrar_resultado: a draw, a win of side 1, a win of side 2
Marcadores == {<<0, 0>>, <<1, 0>>, <<0, 1>>}

Registrar ==
    \E k \in 1..Len(Entrantes) :
        /\ Len(competidores) < MaxComp
        /\ k <= Len(competidores) + 1
        /\ registrar_competidor(Entrantes[k][1], Entrantes[k][2])

Generar == generar_nueva_ronda(MaxRonda)

Resultado ==
    \E i \in 1..Len(partidos) : \E s \in Marcadores :
        registrar_resultado(i, s[1], s[2])

Reiniciar == reset_all_matches

Next == Registrar \/ Generar \/ Resultado \/ Reiniciar \/ Finalizar

Spec == Init /\ [][Next]_vars

----------------------------------------------------------------------------
(* The same operations, with a negative score among the inputs of          *)
(* registrar_resultado                                                     *)

MarcadoresNeg == {<<-1, 0>>}

ResultadoNeg ==
    \E i \in 1..Len(partidos) : \E s \in MarcadoresNeg :
        registrar_resultado(i, s[1], s[2])

NextNeg == Next \/ ResultadoNeg

SpecNeg == Init /\ [][NextNeg]_vars

----------------------------------------------------------------------------
(* The same operations on a pairs tournament with or without courts, plus  *)
(* the export of the tournament followed by its import                     *)

CanchasJson == {<<>>, <<"1", "2">>}

InitJson ==
    /\ modo = "Parejas"
    /\ ronda_actual = 0
    /\ competidores = <<>>
    /\ partidos = <<>>
    /\ canchas \in CanchasJson
    /\ permitir_byes \in BOOLEAN
    /\ finalizado = FALSE
    /\ last = Ret("Torneo", "")

NextJson == Next \/ ExportImport

SpecJson == InitJson /\ [][NextJson]_vars

----------------------------------------------------------------------------
(* Four competitors A, B, C, D already registered (in that order, C and D   *)
(* as pairs), one court; results 6-2, 6-3 and 3-3 are entered for the       *)
(* matches of the round in progress.                                        *)

OrdenFour == <<<<sA, None>>, <<sB, None>>, <<sC, <<sx, sy>>>>, <<sD, <<sx, sy>>>>>>

ParesFour == {<<6, 2>>, <<6, 3>>, <<3, 3>>}

InitFour ==
    /\ modo = "Parejas"
    /\ ronda_actual = 0
    /\ competidores = [i \in 1..Len(OrdenFour) |->
                          Competidor(OrdenFour[i][1], OrdenFour[i][2])]
    /\ partidos = <<>>
    /\ canchas = <<"1">>
    /\ permitir_byes = FALSE
    /\ finalizado = FALSE
    /\ last = Ret("registrar_competidor", "")

GenerarFour == generar_nueva_ronda(MaxRondaFour)

ResultadoFour ==
    \E i \in 1..Len(partidos) : \E s \in ParesFour :
        /\ partidos[i].ronda = ronda_actual
        /\ registrar_resultado(i, s[1], s[2])

NextFour == GenerarFour \/ ResultadoFour \/ Reiniciar

SpecFour == InitFour /\ [][NextFour]_vars

----------------------------------------------------------------------------
(* The same four competitors over one more round, rounds being generated   *)
(* whether or not the results of the round in progress are in; a result    *)
(* 6-2 or 3-3 is entered once for a match of the round in progress         *)

MaxRondaRepeat == 3

ParesRepeat == {<<6, 2>>, <<3, 3>>}

GenerarRepeat == generar_nueva_ronda(MaxRondaRepeat)

ResultadoRepeat ==
    \E i \in 1..Len(partidos) : \E s \in ParesRepeat :
        /\ partidos[i].ronda = ronda_actual
        /\ ~partidos[i].jugado
        /\ registrar_resultado(i, s[1], s[2])

NextRepeat == GenerarRepeat \/ ResultadoRepeat

SpecRepeat == InitFour /\ [][NextRepeat]_vars

----------------------------------------------------------------------------
(* Six players A..F already registered, with no, one, two or three courts   *)
(* configured; rounds are generated (three matches each) and reset.         *)

OrdenCourts == <<sA, sB, sC, sD, sE, sF>>

CanchasCourts == {<<>>, <<"1">>, <<"1", "2">>, <<"1", "2", "3">>}

InitCourts ==
    /\ modo = "Individual"
    /\ ronda_actual = 0
    /\ competidores = [i \in 1..Len(OrdenCourts) |-> Competidor(OrdenCourts[i], None)]
    /\ partidos = <<>>
    /\ canchas \in CanchasCourts
    /\ permitir_byes = FALSE
    /\ finalizado = FALSE
    /\ last = Ret("registrar_competidor", "")

GenerarCourts == generar_nueva_ronda(MaxRondaCourts)

NextCourts == GenerarCourts \/ Reiniciar

SpecCourts == InitCourts /\ [][NextCourts]_vars

----------------------------------------------------------------------------
(* Vocabulary of the properties *)

NumComp == Len(competidores)

\* the matches appended by the step
Nuevos == SubSeq(partidos', Len(partidos) + 1, Len(partidos'))

\* a call of generar_nueva_ronda that returned normally
GenOk == last'.op = "generar_nueva_ronda" /\ last'.err = ""

Lados(ps) == [k \in 1..Len(ps) |-> <<ps[k].comp1, ps[k].comp2>>]

Propio(p, c) == IF p.comp1 = c THEN p.score1[1] ELSE p.score2[1]

Rival(p, c) == IF p.comp1 = c THEN p.score2[1] ELSE p.score1[1]

\* positions of the played matches of competitor c
JugadosDe(ps, c) ==
    {i \in 1..Len(ps) : ps[i].jugado /\ (ps[i].comp1 = c \/ ps[i].comp2 = c)}

RECURSIVE SumaDif(_, _, _)
SumaDif(ps, c, k) ==
    IF k > Len(ps) THEN 0
    ELSE (IF k \in JugadosDe(ps, c) THEN Propio(ps[k], c) - Rival(ps[k], c) ELSE 0)
         + SumaDif(ps, c, k + 1)

\* the stats of competitor record c are those the scoring rule gives on log ps
StatsSegunRegla(c, ps) ==
    LET J == JugadosDe(ps, c.nombre)
        G == {i \in J : Propio(ps[i], c.nombre) > Rival(ps[i], c.nombre)}
        P == {i \in J : Propio(ps[i], c.nombre) < Rival(ps[i], c.nombre)}
        E == {i \in J : Propio(ps[i], c.nombre) = Rival(ps[i], c.nombre)}
    IN  /\ c.pj = Cardinality(J)
        /\ c.pg = Cardinality(G)
        /\ c.pp = Cardinality(P)
        /\ c.pe = Cardinality(E)
        /\ c.puntos = 3 * Cardinality(G) + 1 * Cardinality(E) + 0 * Cardinality(P)
        /\ c.dif = SumaDif(ps, c.nombre, 1)

----------------------------------------------------------------------------
(* C1: in every reachable state the stats stored in each competitor equal  *)
(* the stats a full recomputation from the current match log gives; they   *)
(* are never stale.                                                         *)
C1_StatsNeverStale == competidores = recompute_all_stats(competidores, partidos)

\* a round was generated while results of an earlier round are on the board
C1_Witness ==
    /\ last = Ret("generar_nueva_ronda", "")
    /\ \E i \in 1..Len(partidos) : partidos[i].jugado
    /\ \E k \in 1..NumComp : competidores[k].puntos = 3

(* C2 as stated: finalizado is a one-way latch; once true it is true in    *)
(* every later state whatever operation follows.                           *)
C2_LatchOriginal == [][finalizado => finalizado']_vars

(* C2 amended: once finalizado is true it stays true under                 *)
(* registrar_competidor, generar_nueva_ronda and registrar_resultado;      *)
(* reset_all_matches, and only it, sets it back to false.                  *)
C2_LatchExceptReset ==
    [][/\ (finalizado /\ last'.op # "reset_all_matches") => finalizado'
       /\ (last'.op = "reset_all_matches") => ~finalizado']_vars

\* a result was written on a finalized tournament, which stayed finalized
C2_Witness == finalizado /\ last.op = "registrar_resultado"

(* C3: after finalization registrar_competidor fails (raises an error)     *)
(* for every name, registered or not, and leaves the registry and all      *)
(* other state unchanged.                                                  *)
C3_RegistroBloqueado ==
    [][(finalizado /\ last'.op = "registrar_competidor")
          => (last'.err # "" /\ UNCHANGED torneo)]_vars

(* C4: after finalization registrar_resultado fails and leaves the scores  *)
(* and played flag of the match and every competitor's stats unchanged.    *)
C4_ResultadoBloqueado ==
    [][(finalizado /\ last'.op = "registrar_resultado")
          => (last'.err # "" /\ UNCHANGED <<partidos, competidores>>)]_vars

(* C5: generar_nueva_ronda fails with a validation error and changes       *)
(* nothing (ronda_actual, match log, competitor stats, nor any other       *)
(* field) when the tournament is finalized, or fewer than 2 competitors    *)
(* are registered, or the count is odd while permitir_byes is false.       *)
C5_GenerarAllOrNothing ==
    [][(/\ last'.op = "generar_nueva_ronda"
        /\ \/ finalizado
           \/ NumComp < 2
           \/ (NumComp % 2 = 1 /\ ~permitir_byes))
          => (last'.err # "" /\ UNCHANGED torneo)]_vars

\* a round was refused for an odd number of competitors without byes
C5_Witness ==
    /\ last = Ret("generar_nueva_ronda", ErrImpar)
    /\ NumComp = 3 /\ ~permitir_byes /\ ~finalizado

(* C6: generar_nueva_ronda called when ronda_actual equals                 *)
(* total_rondas_posibles fails and leaves ronda_actual and the match log   *)
(* unchanged.                                                              *)
C6_RoundCap ==
    [][(/\ last'.op = "generar_nueva_ronda"
        /\ ronda_actual = total_rondas_posibles(competidores))
          => (last'.err # "" /\ UNCHANGED <<ronda_actual, partidos>>)]_vars

----------------------------------------------------------------------------
(* Ranking, stated without the sort *)

Permutacion(n, f) == \A i, j \in 1..n : i # j => f[i] # f[j]

\* competitor a ranks before b: points, differential, wins descending, key ascending
AntesQue(a, b, ka, kb) ==
    \/ a.puntos > b.puntos
    \/ a.puntos = b.puntos /\ a.dif > b.dif
    \/ a.puntos = b.puntos /\ a.dif = b.dif /\ a.pg > b.pg
    \/ a.puntos = b.puntos /\ a.dif = b.dif /\ a.pg = b.pg /\ StrLess(ka, kb)

\* the names of cs ranked with the name as last key
RankingPorNombre(cs) ==
    LET f == CHOOSE g \in [1..Len(cs) -> 1..Len(cs)] :
                 /\ Permutacion(Len(cs), g)
                 /\ \A i, j \in 1..Len(cs) :
                        i < j => ~AntesQue(cs[g[j]], cs[g[i]],
                                           cs[g[j]].nombre, cs[g[i]].nombre)
    IN  [i \in 1..Len(cs) |-> cs[f[i]].nombre]

\* the names of cs ranked with the display name as last key, ties in registry order
RankingPorDisplay(md, cs) ==
    LET f == CHOOSE g \in [1..Len(cs) -> 1..Len(cs)] :
                 /\ Permutacion(Len(cs), g)
                 /\ \A i, j \in 1..Len(cs) :
                        i < j =>
                          LET a == cs[g[i]]
                              b == cs[g[j]]
                              da == display_name(md, a)
                              db == display_name(md, b)
                          IN  /\ ~AntesQue(b, a, db, da)
                              /\ ~AntesQue(a, b, da, db) => g[i] < g[j]
    IN  [i \in 1..Len(cs) |-> cs[f[i]].nombre]

ParesDe(orden) == [k \in 1..(Len(orden) \div 2) |-> <<orden[2 * k - 1], orden[2 * k]>>]

Jugado(c1, c2, s1, s2) ==
    [comp1 |-> c1, comp2 |-> c2, score1 |-> s1, score2 |-> s2]

Resumen(ps) ==
    {[comp1 |-> ps[i].comp1, comp2 |-> ps[i].comp2,
      score1 |-> ps[i].score1, score2 |-> ps[i].score2] : i \in 1..Len(ps)}

\* round 1 was A beats B 6-2 and C beats D 6-3
EjemploRonda1(ps) ==
    /\ Len(ps) = 2
    /\ Resumen(ps) = {Jugado(sA, sB, <<6>>, <<2>>), Jugado(sC, sD, <<6>>, <<3>>)}

C8_RoundShape ==
    [][GenOk =>
          LET lados == {Nuevos[k].comp1 : k \in 1..Len(Nuevos)}
                       \cup {Nuevos[k].comp2 : k \in 1..Len(Nuevos)}
          IN  /\ Len(partidos') = Len(partidos) + (NumComp \div 2)
              /\ Cardinality(lados) = 2 * Len(Nuevos)
              /\ lados \subseteq {competidores[k].nombre : k \in 1..NumComp}
              /\ (NumComp % 2 = 0)
                    => lados = {competidores[k].nombre : k \in 1..NumComp}]_vars

\* a first round of two matches whose shuffle did not keep the registry order
C8_Witness ==
    /\ last = Ret("generar_nueva_ronda", "")
    /\ ronda_actual = 1 /\ Len(partidos) = 2
    /\ Lados(partidos) = <<<<sD, sA>>, <<sC, sB>>>>

(* C9: the standings attribute, for each played match and no other, one    *)
(* match played and the own-minus-opponent differential to both sides, a   *)
(* win and 3 points to the higher side and a loss and 0 points to the      *)
(* lower, a draw and 1 point to both on equal scores; hence                *)
(* points = 3*wins + draws and played = wins + draws + losses.             *)
C9_ScoringRule ==
    \A k \in 1..NumComp :
        /\ StatsSegunRegla(competidores[k], partidos)
        /\ competidores[k].puntos = 3 * competidores[k].pg + competidores[k].pe
        /\ competidores[k].pj = competidores[k].pg + competidores[k].pe
                                + competidores[k].pp

\* a decisive match and a drawn match are in the log, one competitor in both
C9_Witness ==
    /\ \E i \in 1..Len(partidos) :
          partidos[i].jugado /\ partidos[i].score1 # partidos[i].score2
    /\ \E i \in 1..Len(partidos) :
          partidos[i].jugado /\ partidos[i].score1 = partidos[i].score2
    /\ \E k \in 1..NumComp :
          /\ competidores[k].pe = 1 /\ competidores[k].pg = 1
          /\ competidores[k].puntos = 4 /\ competidores[k].pj = 2

\* the log ps with match m not yet played
SinJugar(ps, m) ==
    [ps EXCEPT ![m] = [@ EXCEPT !.score1 = None, !.score2 = None, !.jugado = FALSE]]

(* C10: registrar_resultado is last-write-wins: writing a result on a      *)
(* match that already has one leaves the standings that writing the new    *)
(* scores alone on the unplayed match gives, the match counting once       *)
(* (matches played unchanged, nothing of the overwritten scores left).     *)
C10_LastWriteWins ==
    [][\A m \in 1..Len(partidos) :
          (/\ last'.op = "registrar_resultado"
           /\ partidos[m].jugado
           /\ partidos'[m] # partidos[m])
             => LET L0   == SinJugar(partidos, m)
                    S0   == recompute_all_stats(competidores, L0)
                    solo == recompute_all_stats(S0, partidos')
                IN  /\ competidores' = solo
                    /\ \A k \in 1..NumComp :
                          /\ StatsSegunRegla(competidores'[k], partidos')
                          /\ competidores'[k].pj = competidores[k].pj]_vars

\* a result was overwritten by a win of side 2, which is all that counts
C10_Witness ==
    /\ last.op = "registrar_resultado" /\ last.edit
    /\ Len(partidos) = 1
    /\ partidos[1].score1 = <<0>> /\ partidos[1].score2 = <<1>>
    /\ competidores[IndexOf(competidores, partidos[1].comp2)].puntos = 3
    /\ competidores[IndexOf(competidores, partidos[1].comp1)].pj = 1

----------------------------------------------------------------------------
(* C11: in each generated round the i-th generated match (0-based) is on   *)
(* court[i mod courtCount] when courts are configured (cycling when there  *)
(* are fewer courts than matches) and has no court when none is.           *)
C11_CourtCycle ==
    [][GenOk =>
          \A k \in 1..Len(Nuevos) :
              IF Len(canchas) = 0
              THEN Nuevos[k].cancha = None
              ELSE Nuevos[k].cancha = <<canchas[((k - 1) % Len(canchas)) + 1]>>]_vars

\* three matches on two courts: the third is back on the first court
C11_Witness ==
    /\ last = Ret("generar_nueva_ronda", "")
    /\ canchas = <<"1", "2">>
    /\ Len(partidos) = 3
    /\ partidos[1].cancha = <<"1">>
    /\ partidos[2].cancha = <<"2">>
    /\ partidos[3].cancha = <<"1">>

(* C12: registrar_competidor with a name already registered fails with    *)
(* the duplicate error and leaves the registry (the existing competitor's  *)
(* members and stats included) unchanged; with a new name on a tournament  *)
(* that is not finalized it adds exactly one competitor with all stats     *)
(* zero; names stay unique keys.                                           *)
C12_Registro ==
    [][\A e \in 1..Len(Entrantes) :
          LET nm == Entrantes[e][1]
              mb == Entrantes[e][2]
              ya == \E i \in 1..NumComp : competidores[i].nombre = nm
          IN  registrar_competidor(nm, mb) =>
                /\ ya => (last'.err = ErrDuplicado /\ UNCHANGED torneo)
                /\ (~ya /\ ~finalizado) =>
                      /\ last'.err = ""
                      /\ competidores' = competidores \o
                            <<[nombre |-> nm, miembros |-> mb, puntos |-> 0,
                               pg |-> 0, pe |-> 0, pp |-> 0, dif |-> 0, pj |-> 0]>>
                      /\ UNCHANGED <<modo, ronda_actual, partidos, canchas,
                                     permitir_byes, finalizado>>
                /\ \A i, j \in 1..Len(competidores') :
                      i # j => competidores'[i].nombre # competidores'[j].nombre]_vars

\* a registered pair with results on the board was offered again and refused
C12_Witness ==
    /\ last = Ret("registrar_competidor", ErrDuplicado)
    /\ \E i \in 1..NumComp :
          competidores[i].miembros = <<sx, sy>> /\ competidores[i].puntos = 3

(* C13: registrar_resultado rejects a negative score for either side: the *)
(* call fails and the scores and played flag of the match and all          *)
(* competitor stats stay unchanged, so no match of the log ever holds a    *)
(* negative score.                                                         *)
C13_ScoreNegativo ==
    [][/\ \A i \in 1..Len(partidos) : \A s \in MarcadoresNeg :
              registrar_resultado(i, s[1], s[2])
                 => (last'.err # "" /\ UNCHANGED <<partidos, competidores>>)
       /\ \A i \in 1..Len(partidos') :
              partidos'[i].jugado
                 => (partidos'[i].score1[1] >= 0 /\ partidos'[i].score2[1] >= 0)]_vars

(* C14: in every reachable state, for every match of the log, played is   *)
(* true if and only if both scores are non-null; a match never has one     *)
(* score without the other.                                                *)
C14_JugadoIffScores ==
    \A i \in 1..Len(partidos) :
        /\ partidos[i].jugado <=> (partidos[i].score1 # None /\ partidos[i].score2 # None)
        /\ (partidos[i].score1 = None) <=> (partidos[i].score2 = None)

\* a played match with both scores next to a fresh match with none
C14_Witness ==
    /\ Len(partidos) = 2
    /\ partidos[1].jugado /\ partidos[1].score1 = <<1>> /\ partidos[1].score2 = <<0>>
    /\ ~partidos[2].jugado /\ partidos[2].score1 = None /\ partidos[2].score2 = None

RECURSIVE SumaPuntos(_, _)
SumaPuntos(cs, k) == IF k > Len(cs) THEN 0 ELSE cs[k].puntos + SumaPuntos(cs, k + 1)

Decisivos(ps) ==
    {i \in 1..Len(ps) : ps[i].jugado /\ ps[i].score1[1] # ps[i].score2[1]}

Empates(ps) ==
    {i \in 1..Len(ps) : ps[i].jugado /\ ps[i].score1[1] = ps[i].score2[1]}

(* C17: in every reachable state the points of all competitors add up to   *)
(* 3 times the number of played matches with unequal scores plus 2 times   *)
(* the number of played matches with equal scores.                         *)
C17_SumaPuntos ==
    SumaPuntos(competidores, 1)
        = 3 * Cardinality(Decisivos(partidos)) + 2 * Cardinality(Empates(partidos))

\* one decisive and one drawn match: 5 points on the board
C17_Witness ==
    /\ Cardinality(Decisivos(partidos)) = 1
    /\ Cardinality(Empates(partidos)) = 1
    /\ SumaPuntos(competidores, 1) = 5

(* C20: the Finalizar action sets finalizado to true only in a state where *)
(* total_rondas_posibles > 0, ronda_actual >= total_rondas_posibles and    *)
(* every match of the log is played; right after finalization no match is  *)
(* unplayed.                                                               *)
C20_FinalizarGuard ==
    [][(~finalizado /\ finalizado') =>
          /\ last'.op = "Finalizar"
          /\ Len(competidores) - 1 > 0
          /\ ronda_actual >= Len(competidores) - 1
          /\ \A i \in 1..Len(partidos) : partidos[i].jugado
          /\ \A i \in 1..Len(partidos') : partidos'[i].jugado]_vars

\* a tournament of two rounds finalized with both matches played
C20_Witness ==
    /\ last = Ret("Finalizar", "")
    /\ finalizado /\ ronda_actual = 2 /\ Len(partidos) = 2
    /\ \A i \in 1..Len(partidos) : partidos[i].jugado

(* C15: reset_all_matches empties the match log, sets ronda_actual to 0    *)
(* and zeroes every competitor's stats, and leaves the registered          *)
(* competitors (names and member pairs), the court list and permitir_byes  *)
(* unchanged.                                                              *)
C15_ResetFrame ==
    [][(last'.op = "reset_all_matches") =>
          /\ partidos' = <<>>
          /\ ronda_actual' = 0
          /\ Len(competidores') = Len(competidores)
          /\ \A k \in 1..NumComp :
                /\ competidores'[k].nombre = competidores[k].nombre
                /\ competidores'[k].miembros = competidores[k].miembros
                /\ competidores'[k].puntos = 0 /\ competidores'[k].pg = 0
                /\ competidores'[k].pe = 0 /\ competidores'[k].pp = 0
                /\ competidores'[k].dif = 0 /\ competidores'[k].pj = 0
          /\ UNCHANGED <<canchas, permitir_byes>>]_vars

\* a tournament with matches in its log was reset; players, pairs and court remain
C15_Witness ==
    /\ last.op = "reset_all_matches" /\ last.edit
    /\ partidos = <<>> /\ ronda_actual = 0
    /\ canchas = <<"1">>
    /\ NumComp = 4 /\ competidores[3].miembros = <<sx, sy>>

(* C18: the structure of a match never changes and the log only grows:     *)
(* registrar_resultado changes only the scores and played flag of one      *)
(* match (sides, round and court of every match, the length and order of   *)
(* the log and ronda_actual are unchanged); a successful                   *)
(* generar_nueva_ronda increases ronda_actual by exactly 1 and only        *)
(* appends matches of that new round, leaving the earlier ones unchanged.  *)
C18_LogFrame ==
    [][/\ (last'.op = "registrar_resultado") =>
              /\ Len(partidos') = Len(partidos)
              /\ ronda_actual' = ronda_actual
              /\ \A i \in 1..Len(partidos) :
                    /\ partidos'[i].comp1 = partidos[i].comp1
                    /\ partidos'[i].comp2 = partidos[i].comp2
                    /\ partidos'[i].ronda = partidos[i].ronda
                    /\ partidos'[i].cancha = partidos[i].cancha
              /\ Cardinality({i \in 1..Len(partidos) : partidos'[i] # partidos[i]}) <= 1
       /\ GenOk =>
              /\ ronda_actual' = ronda_actual + 1
              /\ Len(partidos') >= Len(partidos)
              /\ SubSeq(partidos', 1, Len(partidos)) = partidos
              /\ \A k \in 1..Len(Nuevos) : Nuevos[k].ronda = ronda_actual']_vars

\* round 2 appended after the results of round 1, which are still there
C18_Witness ==
    /\ last = Ret("generar_nueva_ronda", "")
    /\ ronda_actual = 2 /\ Len(partidos) = 4
    /\ partidos[1].jugado /\ partidos[2].jugado
    /\ partidos[1].ronda = 1 /\ partidos[2].ronda = 1
    /\ partidos[3].ronda = 2 /\ partidos[4].ronda = 2

(* C19: with permitir_byes true and an odd number N >= 3 of competitors,   *)
(* generar_nueva_ronda succeeds, appends (N-1)/2 matches and leaves        *)
(* exactly one competitor unpaired, with no bye record and no change to    *)
(* any stats; in every round after the first the unpaired competitor is    *)
(* the last of the ranked order.                                           *)
C19_Bye ==
    [][(/\ last'.op = "generar_nueva_ronda"
        /\ ~finalizado /\ permitir_byes /\ NumComp >= 3 /\ NumComp % 2 = 1) =>
          LET nombres == {competidores[k].nombre : k \in 1..NumComp}
              lados   == {Nuevos[k].comp1 : k \in 1..Len(Nuevos)}
                         \cup {Nuevos[k].comp2 : k \in 1..Len(Nuevos)}
          IN  /\ last'.err = ""
              /\ Len(Nuevos) = (NumComp - 1) \div 2
              /\ SubSeq(partidos', 1, Len(partidos)) = partidos
              /\ lados \subseteq nombres
              /\ Cardinality(nombres \ lados) = 1
              /\ competidores' = competidores
              /\ (ronda_actual' >= 2) =>
                    nombres \ lados
                       = {RankingPorDisplay(modo, competidores)[NumComp]}]_vars

\* round 2 of three: the winner of round 1 meets the one who sat out, the
\* loser of round 1 sits out
C19_Witness ==
    /\ last = Ret("generar_nueva_ronda", "")
    /\ permitir_byes /\ NumComp = 3
    /\ ronda_actual = 2 /\ Len(partidos) = 2
    /\ partidos[1].score1 = <<1>> /\ partidos[1].score2 = <<0>>
    /\ partidos[2].comp1 = partidos[1].comp1
    /\ partidos[2].comp2 \notin {partidos[1].comp1, partidos[1].comp2}

(* C16: to_json followed at once by from_json gives a tournament with the  *)
(* same match log (sides, round, court, scores, played flag, order), the   *)
(* same competitor stats and leaderboard, and the same ronda_actual,       *)
(* canchas, permitir_byes and finalizado.                                  *)
C16_RoundTrip ==
    [][last'.op = "from_json" =>
          /\ partidos' = partidos
          /\ competidores' = competidores
          /\ leaderboard_df(modo', competidores') = leaderboard_df(modo, competidores)
          /\ ronda_actual' = ronda_actual
          /\ canchas' = canchas
          /\ permitir_byes' = permitir_byes
          /\ finalizado' = finalizado]_vars

\* a finalized pairs tournament with courts, a played match with non-zero
\* stats and a team with members has just been exported and imported
C16_Witness ==
    /\ last.op = "from_json"
    /\ finalizado /\ canchas # <<>> /\ ronda_actual >= 1
    /\ \E i \in 1..Len(partidos) :
           partidos[i].jugado /\ partidos[i].cancha # None
    /\ \E i \in 1..Len(competidores) :
           competidores[i].miembros # None /\ competidores[i].puntos > 0

(* C21: the pairs of a round after the first are a function of the        *)
(* registry and the match log, and when a round r >= 2 and the round r+1   *)
(* are generated by two successive calls with no other operation between,  *)
(* round r+1 has the same ordered pairs as round r.                        *)
C21_RepeatPairs ==
    [][(GenOk /\ ronda_actual' >= 2) =>
          /\ Lados(Nuevos) =
                ParesDe(RankingPorDisplay(modo,
                            recompute_all_stats(competidores, partidos)))
          /\ (last = Ret("generar_nueva_ronda", "") /\ ronda_actual >= 2) =>
                Lados(Nuevos) = Lados(partidos_de_ronda(partidos, ronda_actual))]_vars

\* rounds 2 and 3 were generated one right after the other, after a result
\* of round 1 was in, and the same opponents meet again in the same order
C21_Witness ==
    /\ last = Ret("generar_nueva_ronda", "")
    /\ ronda_actual = 3
    /\ \E i \in 1..Len(partidos) : partidos[i].ronda = 1 /\ partidos[i].jugado
    /\ partidos_de_ronda(partidos, 2) # <<>>
    /\ \A i \in 1..Len(partidos) : partidos[i].ronda >= 2 => ~partidos[i].jugado
    /\ Lados(partidos_de_ronda(partidos, 3)) = Lados(partidos_de_ronda(partidos, 2))

(* C22: in every reachable state each match of the log has two distinct   *)
(* sides, both of them registered competitors, and a round number between  *)
(* 1 and ronda_actual, so that recompute_all_stats finds every side in     *)
(* the registry.                                                           *)
C22_LogWellFormed ==
    \A i \in 1..Len(partidos) :
        /\ partidos[i].comp1 # partidos[i].comp2
        /\ \E j \in 1..NumComp : competidores[j].nombre = partidos[i].comp1
        /\ \E j \in 1..NumComp : competidores[j].nombre = partidos[i].comp2
        /\ 1 <= partidos[i].ronda
        /\ partidos[i].ronda <= ronda_actual

\* three competitors, a match of round 1 and a match of round 2 between
\* different sides, the latter with its result just entered
C22_Witness ==
    /\ last.op = "registrar_resultado"
    /\ NumComp = 3 /\ ronda_actual = 2
    /\ \E i, j \in 1..Len(partidos) :
           /\ partidos[i].ronda = 1 /\ partidos[j].ronda = 2
           /\ partidos[j].jugado
           /\ {partidos[i].comp1, partidos[i].comp2}
                 # {partidos[j].comp1, partidos[j].comp2}

====
